---- MODULE Spec2Model ----
(***************************************************************************)
(* A model of pdf2image/pdf2image.py: the Document Renderer                *)
(* (convert_from_path, convert_from_bytes), the Output Collector           *)
(* (_load_from_output_folder) and the Metadata Reader (pdfinfo_from_path,  *)
(* pdfinfo_from_bytes).                                                    *)
(*                                                                         *)
(* Strings (file names, paths, extensions) are sequences of character      *)
(* codes, so that the f-string of line 124, os.path.join, str.split and    *)
(* the ordering used by sorted() are computed, not assumed.                *)
(***************************************************************************)
EXTENDS Integers, Sequences, FiniteSets, TLC

\* ------------------------------------------------------------------ bounds
\* Largest page count of the valid document of a session.
MaxPages == 10
\* Largest number of files found in the caller's output folder at the start.
MaxFiles == 3
\* Number of names tempfile can hand out in the system temp area.
MaxTmp == 2

\* ----------------------------------------------------------------- strings
\* "."  (the separator of f.split("."), line 377)
DOT == <<46>>
\* "/"  (os.sep on POSIX, used by os.path.join)
SEP == <<47>>
\* "page_"  (line 124)
S_page == <<112, 97, 103, 101, 95>>
\* "png"  (lines 124 and 138)
S_png == <<112, 110, 103>>
\* "txt", "bak": other extensions a folder may hold
S_txt == <<116, 120, 116>>
S_bak == <<98, 97, 107>>
\* "bad", "notes"
S_bad == <<98, 97, 100>>
S_notes == <<110, 111, 116, 101, 115>>
\* "out": the caller-supplied output folder
OUT == <<111, 117, 116>>
\* "/tmp/tmp": prefix of the names handed out by tempfile
S_tmp == <<47, 116, 109, 112, 47, 116, 109, 112>>
\* user files: "doc.pdf", "dmg.pdf", "junk.pdf", "nofile.pdf"
DOC == <<100, 111, 99, 46, 112, 100, 102>>
DAMAGED == <<100, 109, 103, 46, 112, 100, 102>>
GARBAGE == <<106, 117, 110, 107, 46, 112, 100, 102>>
MISSING == <<110, 111, 102, 105, 108, 101, 46, 112, 100, 102>>

\* str(n) for n >= 0: the decimal digits of n, most significant first.
RECURSIVE Str(_)
Str(n) == IF n < 10 THEN <<48 + n>> ELSE Str(n \div 10) \o <<48 + (n % 10)>>

\* f'page_{page_num + 1}.png'
PageFileName(page_num) == S_page \o Str(page_num + 1) \o DOT \o S_png

\* os.path.join(a, b) for a relative b and an a that does not end in "/".
PathJoin(a, b) == a \o SEP \o b

\* a < b in Python's string order (lexicographic on code points).
StrLess(a, b) ==
    \E k \in 1..(Len(b)) :
        /\ \A i \in 1..(k - 1) : i <= Len(a) /\ a[i] = b[i]
        /\ \/ k > Len(a)
           \/ k <= Len(a) /\ a[k] < b[k]

\* s.split(sep) for a one-character sep: the list of components.
RECURSIVE Split(_, _)
Split(s, sep) ==
    IF \A i \in 1..Len(s) : s[i] # sep[1]
    THEN <<s>>
    ELSE LET k == CHOOSE i \in 1..Len(s) :
                      s[i] = sep[1] /\ \A j \in 1..(i - 1) : s[j] # sep[1]
         IN  <<SubSeq(s, 1, k - 1)>> \o Split(SubSeq(s, k + 1, Len(s)), sep)

\* sorted(S) for a set of strings.
RECURSIVE Sorted(_)
Sorted(S) ==
    IF S = {} THEN <<>>
    ELSE LET m == CHOOSE x \in S : \A y \in S \ {x} : StrLess(x, y)
         IN  <<m>> \o Sorted(S \ {m})

\* The filter of line 377 with the first component taken for the last.
MatchesExt_FirstComponent(f, ext) == Split(f, DOT)[1] = ext

\* f.split(".")[-1] == ext   (line 377)
MatchesExt(f, ext) == LET parts == Split(f, DOT) IN parts[Len(parts)] = ext

\* ------------------------------------------------------------- file system
\* A file system maps each existing path to what is stored there.
Dir == [kind |-> "dir", pages |-> 0, sound |-> FALSE]
ImageFile == [kind |-> "image", pages |-> 0, sound |-> FALSE]
OtherFile == [kind |-> "other", pages |-> 0, sound |-> FALSE]
\* A PDF of n pages; sound = every page renders and the page count resolves.
Pdf(n, ok) == [kind |-> "pdf", pages |-> n, sound |-> ok]

\* Optional strings: None, or a string.
None == [none |-> TRUE, s |-> <<>>]
Some(x) == [none |-> FALSE, s |-> x]

\* The names a caller's output folder may hold before a call, with what each
\* holds: page_1.png, page_2.png, page_10.png, png (images), notes.txt,
\* png.bak (other data) and bad.png (a .png name that is no image).
FolderNames ==
    { PageFileName(0), PageFileName(1), PageFileName(9), S_png,
      S_notes \o DOT \o S_txt, S_png \o DOT \o S_bak, S_bad \o DOT \o S_png }
StoredUnder(f) ==
    IF f \in { PageFileName(0), PageFileName(1), PageFileName(9), S_png }
    THEN ImageFile ELSE OtherFile

\* The names tempfile.mkstemp / tempfile.mkdtemp can hand out.
TmpNames == { S_tmp \o Str(i) : i \in 0..(MaxTmp - 1) }

IsDir(fsys, d) == d \in DOMAIN fsys /\ fsys[d].kind = "dir"

\* os.listdir(d): the names directly under d.
ListDir(fsys, d) ==
    LET pre == d \o SEP
        under == { p \in DOMAIN fsys :
                     /\ Len(p) > Len(pre)
                     /\ SubSeq(p, 1, Len(pre)) = pre
                     /\ \A i \in (Len(pre) + 1)..Len(p) : p[i] # SEP[1] }
    IN  { SubSeq(p, Len(pre) + 1, Len(p)) : p \in under }

\* fsys with path p created or overwritten / removed.
WithFile(fsys, p, c) == [q \in DOMAIN fsys \cup {p} |-> IF q = p THEN c ELSE fsys[q]]
Without(fsys, p) == [q \in DOMAIN fsys \ {p} |-> fsys[q]]

\* -------------------------------------------------------- outcomes of a call
\* How a call ends: a normal return (of None or of a list) or an exception.
\* `info` is the Pages field of a returned metadata mapping (-1: no mapping).
ReturnNone == [outcome |-> "return", isNone |-> TRUE, list |-> <<>>, info |-> -1]
ReturnList(l) == [outcome |-> "return", isNone |-> FALSE, list |-> l, info |-> -1]
ReturnInfo(n) == [outcome |-> "return", isNone |-> FALSE, list |-> <<>>, info |-> n]
Raise(e) == [outcome |-> e, isNone |-> TRUE, list |-> <<>>, info |-> -1]

\* The ways fitz.open fails: the "cannot open document" errors.
OpenErrors == { "fitz.FileNotFoundError", "fitz.FileDataError" }

\* --------------------------------------------------------- Output Collector
\* An entry of the result: a path (paths-only mode) or an opened image, which
\* remembers its file and whether load() has decoded it into memory.
PathEntry(p) == [path |-> p, image |-> FALSE, loaded |-> FALSE]
ImageEntry(p, l) == [path |-> p, image |-> TRUE, loaded |-> l]

\* The loop of lines 376-383 over the sorted listing `files`.
RECURSIVE LoadLoop(_, _, _, _, _, _, _)
LoadLoop(fsys, output_folder, files, ext, paths_only, in_memory, images) ==
    IF files = <<>> THEN ReturnList(images)
    ELSE LET f == Head(files)
             p == PathJoin(output_folder, f)
         IN  IF ~MatchesExt(f, ext)
             THEN LoadLoop(fsys, output_folder, Tail(files), ext, paths_only,
                           in_memory, images)
             ELSE IF paths_only
             THEN LoadLoop(fsys, output_folder, Tail(files), ext, paths_only,
                           in_memory, Append(images, PathEntry(p)))
             ELSE IF fsys[p].kind # "image"
             THEN Raise("PIL.UnidentifiedImageError")
             ELSE LoadLoop(fsys, output_folder, Tail(files), ext, paths_only,
                           in_memory, Append(images, ImageEntry(p, in_memory)))

\* _load_from_output_folder(output_folder, None, ext, paths_only, in_memory)
LoadFromOutputFolder(fsys, output_folder, ext, paths_only, in_memory) ==
    IF ~IsDir(fsys, output_folder) THEN Raise("FileNotFoundError")
    ELSE LoadLoop(fsys, output_folder, Sorted(ListDir(fsys, output_folder)),
                  ext, paths_only, in_memory, <<>>)

\* ---------------------------------------------------------- Metadata Reader
\* pdfinfo_from_path: `installed` says whether the pdfminer imports succeed.
PdfinfoFromPath(fsys, pdf_path, installed) ==
    IF ~installed THEN Raise("ImportError")
    ELSE IF pdf_path \notin DOMAIN fsys
    THEN \* open() raises FileNotFoundError, an OSError: lines 314-317
         Raise("PDFInfoNotInstalledError")
    ELSE IF fsys[pdf_path].kind # "pdf"
    THEN Raise("pdfminer.PDFSyntaxError")
    ELSE IF ~fsys[pdf_path].sound
    THEN \* int() raises ValueError; the handler of lines 318-321 formats its
         \* message from `err`, a name that is bound nowhere
         Raise("NameError")
    ELSE \* info['Pages'] = int(resolve1(d.catalog['Pages'])['Count'])
         ReturnInfo(fsys[pdf_path].pages)

\* pdfinfo_from_bytes: no handler at all, every error propagates unchanged.
PdfinfoFromBytes(pdf_bytes, installed) ==
    IF ~installed THEN Raise("ImportError")
    ELSE IF pdf_bytes.kind # "pdf" THEN Raise("pdfminer.PDFSyntaxError")
    ELSE IF ~pdf_bytes.sound THEN Raise("ValueError")
    ELSE ReturnInfo(pdf_bytes.pages)

\* -------------------------------------------------------------------- state
VARIABLES
    fs,       \* the file system: path -> what is stored there
    pc,       \* where the call in progress stands ("idle": none in progress)
    call,     \* the operation called last and its arguments
    loc,      \* the locals of the call in progress
    result,   \* how the last completed call ended
    memRet,   \* how the last convert_from_path(doc, output_folder=None) ended
    folder0   \* what the folder "out" held when the session began

vars == <<fs, pc, call, loc, result, memRet, folder0>>

NoCall ==
    [op |-> "none", pdf_path |-> <<>>, pdf_file |-> OtherFile,
     output_folder |-> None, ext |-> <<>>, paths_only |-> FALSE,
     in_memory |-> FALSE, installed |-> FALSE]

\* pdf_path/output_folder: the arguments convert_from_path runs with;
\* pdf_document: the page count of the opened document (-1: not opened);
\* temp_filename: the file of mkstemp; pending: how the try block ended.
NoLoc ==
    [pdf_path |-> <<>>, output_folder |-> None, pdf_document |-> -1,
     page_num |-> 0, output_path |-> None,
     temp_filename |-> None, pending |-> Raise("none")]

NoResult == [set |-> FALSE, ret |-> Raise("none")]
Done(r) == [set |-> TRUE, ret |-> r]

\* The user's files: doc.pdf is a sound PDF of n pages, dmg.pdf a PDF of n
\* pages with a page that may not render and a page count that does not
\* resolve, junk.pdf is no PDF; nofile.pdf does not exist.
UserFiles(n) ==
    [p \in {DOC, DAMAGED, GARBAGE} |->
        IF p = DOC THEN Pdf(n, TRUE)
        ELSE IF p = DAMAGED THEN Pdf(n, FALSE) ELSE OtherFile]

\* The output folder "out" holding the names in S.
Folder(S) ==
    [p \in {OUT} \cup { PathJoin(OUT, f) : f \in S } |->
        IF p = OUT THEN Dir
        ELSE StoredUnder(SubSeq(p, Len(OUT) + 2, Len(p)))]

Init ==
    /\ \E n \in 0..MaxPages :
       \E S \in SUBSET FolderNames :
       \E exists \in BOOLEAN :
          /\ Cardinality(S) <= MaxFiles
          /\ exists \/ S = {}
          /\ fs = IF exists THEN UserFiles(n) @@ Folder(S) ELSE UserFiles(n)
          /\ folder0 = [exists |-> exists, names |-> S]
    /\ pc = "idle"
    /\ call = NoCall
    /\ loc = NoLoc
    /\ result = NoResult
    /\ memRet = NoResult

\* ------------------------------------------------------- convert_from_path
\* The call in progress is the session's round-trip subject: the sound
\* document, rendered without / with an output folder.
IsMemCall == /\ call.op = "convert_from_path" /\ call.pdf_path = DOC
             /\ call.output_folder.none /\ ~call.paths_only
IsDiskCall == /\ call.op = "convert_from_path" /\ call.pdf_path = DOC
              /\ ~call.output_folder.none

\* convert_from_path ends with r: to the caller, or to the finally block of
\* convert_from_bytes (line 250).
EndConvertFromPath(r) ==
    IF call.op = "convert_from_bytes"
    THEN /\ pc' = "cfb_finally"
         /\ loc' = [loc EXCEPT !.pending = r]
         /\ UNCHANGED <<result, memRet>>
    ELSE /\ pc' = "done"
         /\ loc' = loc
         /\ result' = Done(r)
         /\ memRet' = IF IsMemCall THEN Done(r) ELSE memRet

\* A caller calls convert_from_path(pdf_path, output_folder=..., paths_only=...).
CallConvertFromPath ==
    /\ pc = "idle"
    /\ \E p \in {DOC, DAMAGED, GARBAGE, MISSING} :
       \E folder \in {None, Some(OUT)} :
       \E po \in BOOLEAN :
          /\ call' = [NoCall EXCEPT !.op = "convert_from_path", !.pdf_path = p,
                                    !.output_folder = folder, !.paths_only = po]
          /\ loc' = [NoLoc EXCEPT !.pdf_path = p, !.output_folder = folder]
    /\ pc' = "cfp_open"
    /\ UNCHANGED <<fs, result, memRet, folder0>>

\* Line 116: pdf_document = fitz.open(pdf_path), which opens the document.
OpenDocument ==
    /\ pc = "cfp_open"
    /\ loc.pdf_path \in DOMAIN fs
    /\ fs[loc.pdf_path].kind = "pdf"
    /\ loc' = [loc EXCEPT !.pdf_document = fs[loc.pdf_path].pages]
    /\ pc' = "cfp_loop"
    /\ UNCHANGED <<fs, call, result, memRet, folder0>>

\* Line 116: fitz.open raises; nothing catches it.
OpenOutcome(fsys, p) ==
    IF p \notin DOMAIN fsys THEN Raise("fitz.FileNotFoundError")
    ELSE Raise("fitz.FileDataError")

\* Line 116 with the failure of fitz.open swallowed: the call goes on as if
\* the document were empty.
OpenFails_Swallowed ==
    /\ pc = "cfp_open"
    /\ ~(loc.pdf_path \in DOMAIN fs /\ fs[loc.pdf_path].kind = "pdf")
    /\ loc' = [loc EXCEPT !.pdf_document = 0]
    /\ pc' = "cfp_loop"
    /\ UNCHANGED <<fs, call, result, memRet, folder0>>

OpenFails ==
    /\ pc = "cfp_open"
    /\ ~(loc.pdf_path \in DOMAIN fs /\ fs[loc.pdf_path].kind = "pdf")
    /\ EndConvertFromPath(OpenOutcome(fs, loc.pdf_path))
    /\ UNCHANGED <<fs, call, folder0>>

\* Lines 119-125, one iteration: the page is loaded and rasterized, the
\* output path is computed; pix.save is commented out, nothing is written.
RenderPage ==
    /\ pc = "cfp_loop"
    /\ loc.page_num < loc.pdf_document
    /\ ~loc.output_folder.none
    /\ loc' = [loc EXCEPT
                 !.output_path = Some(PathJoin(loc.output_folder.s,
                                               PageFileName(loc.page_num))),
                 !.page_num = loc.page_num + 1]
    /\ UNCHANGED <<fs, pc, call, result, memRet, folder0>>

\* Line 124 with output_folder = None: os.path.join(None, ...) is a TypeError.
JoinFails ==
    /\ pc = "cfp_loop"
    /\ loc.page_num < loc.pdf_document
    /\ loc.output_folder.none
    /\ EndConvertFromPath(Raise("TypeError"))
    /\ UNCHANGED <<fs, call, folder0>>

\* Lines 120-121 on a document that is not sound: load_page / get_pixmap
\* may raise on any page.
RenderFails ==
    /\ pc = "cfp_loop"
    /\ loc.page_num < loc.pdf_document
    /\ ~fs[loc.pdf_path].sound
    /\ EndConvertFromPath(Raise("fitz.RenderError"))
    /\ UNCHANGED <<fs, call, folder0>>

\* Lines 127-141 and the end of the function: the temporary directory when
\* no folder was given, the read-back of the folder into `images`, and the
\* fall off the end of the function, which returns None.
CollectOutcome(r) == IF r.outcome = "return" THEN ReturnNone ELSE r

Collect ==
    /\ pc = "cfp_loop"
    /\ loc.page_num = loc.pdf_document
    /\ IF loc.output_folder.none
       THEN IF TmpNames \ DOMAIN fs = {}
            THEN \* tempfile.mkdtemp finds no usable name
                 /\ fs' = fs
                 /\ EndConvertFromPath(Raise("FileExistsError"))
            ELSE \E d \in TmpNames \ DOMAIN fs :
                 /\ fs' = WithFile(fs, d, Dir)
                 /\ EndConvertFromPath(CollectOutcome(
                        LoadFromOutputFolder(fs', d, S_png, call.paths_only, TRUE)))
       ELSE /\ fs' = fs
            /\ EndConvertFromPath(CollectOutcome(
                   LoadFromOutputFolder(fs, loc.output_folder.s, S_png,
                                        call.paths_only, FALSE)))
    /\ UNCHANGED <<call, folder0>>

\* ------------------------------------------------------ convert_from_bytes
\* A caller calls convert_from_bytes(pdf_file, output_folder=..., paths_only=...)
\* with the bytes of one of the user's files.
CallConvertFromBytes ==
    /\ pc = "idle"
    /\ \E src \in {DOC, DAMAGED, GARBAGE} :
       \E folder \in {None, Some(OUT)} :
       \E po \in BOOLEAN :
          call' = [NoCall EXCEPT !.op = "convert_from_bytes", !.pdf_file = fs[src],
                                 !.output_folder = folder, !.paths_only = po]
    /\ loc' = NoLoc
    /\ pc' = "cfb_mkstemp"
    /\ UNCHANGED <<fs, result, memRet, folder0>>

\* Line 221: fh, temp_filename = tempfile.mkstemp() creates an empty file.
Mkstemp ==
    /\ pc = "cfb_mkstemp"
    /\ \E t \in TmpNames \ DOMAIN fs :
          /\ fs' = WithFile(fs, t, OtherFile)
          /\ loc' = [loc EXCEPT !.temp_filename = Some(t)]
    /\ pc' = "cfb_write"
    /\ UNCHANGED <<call, result, memRet, folder0>>

\* Line 221: mkstemp finds no usable name; the call ends before the try.
MkstempFails ==
    /\ pc = "cfb_mkstemp"
    /\ TmpNames \ DOMAIN fs = {}
    /\ pc' = "done"
    /\ result' = Done(Raise("FileExistsError"))
    /\ UNCHANGED <<fs, call, loc, memRet, folder0>>

\* Lines 223-249: the buffer is written and flushed, and convert_from_path
\* is called with f.name, output_folder and paths_only.
WriteBuffer ==
    /\ pc = "cfb_write"
    /\ fs' = WithFile(fs, loc.temp_filename.s, call.pdf_file)
    /\ loc' = [loc EXCEPT !.pdf_path = loc.temp_filename.s,
                          !.output_folder = call.output_folder]
    /\ pc' = "cfp_open"
    /\ UNCHANGED <<call, result, memRet, folder0>>

\* Lines 223-225: open / write / flush raises OSError (no space left); what
\* reached the file is no document.
WriteFails ==
    /\ pc = "cfb_write"
    /\ loc' = [loc EXCEPT !.pending = Raise("OSError")]
    /\ pc' = "cfb_finally"
    /\ UNCHANGED <<fs, call, result, memRet, folder0>>

\* os.remove(temp_filename), line 252.
RemoveTemp(fsys, temp_filename) == Without(fsys, temp_filename)

\* Lines 250-252 with the removal placed after the call instead of in a
\* finally block: an exception skips it.
Finally_NoCleanupOnError ==
    /\ pc = "cfb_finally"
    /\ fs' = IF loc.pending.outcome = "return"
             THEN RemoveTemp(fs, loc.temp_filename.s) ELSE fs
    /\ result' = Done(loc.pending)
    /\ pc' = "done"
    /\ UNCHANGED <<call, loc, memRet, folder0>>

\* Lines 250-252: os.close(fh); os.remove(temp_filename); then the return
\* value or the exception of the try block goes to the caller.
Finally ==
    /\ pc = "cfb_finally"
    /\ fs' = RemoveTemp(fs, loc.temp_filename.s)
    /\ result' = Done(loc.pending)
    /\ pc' = "done"
    /\ UNCHANGED <<call, loc, memRet, folder0>>

\* ------------------------------------------------ _load_from_output_folder
\* The folders a caller may read back: "out" and the temporary directories.
Folders == {OUT} \cup TmpNames

CallLoadFromOutputFolder ==
    /\ pc = "idle"
    /\ \E folder \in Folders :
       \E ext \in {S_png, S_txt, S_bak} :
       \E po \in BOOLEAN :
       \E mem \in BOOLEAN :
          /\ call' = [NoCall EXCEPT !.op = "_load_from_output_folder",
                                    !.output_folder = Some(folder), !.ext = ext,
                                    !.paths_only = po, !.in_memory = mem]
          /\ result' = Done(LoadFromOutputFolder(fs, folder, ext, po, mem))
    /\ loc' = NoLoc
    /\ pc' = "done"
    /\ UNCHANGED <<fs, memRet, folder0>>

\* ------------------------------------------------------------ pdfinfo calls
CallPdfinfoFromPath ==
    /\ pc = "idle"
    /\ \E p \in {DOC, DAMAGED, GARBAGE, MISSING} :
       \E installed \in BOOLEAN :
          /\ call' = [NoCall EXCEPT !.op = "pdfinfo_from_path", !.pdf_path = p,
                                    !.installed = installed]
          /\ result' = Done(PdfinfoFromPath(fs, p, installed))
    /\ loc' = NoLoc
    /\ pc' = "done"
    /\ UNCHANGED <<fs, memRet, folder0>>

CallPdfinfoFromBytes ==
    /\ pc = "idle"
    /\ \E src \in {DOC, DAMAGED, GARBAGE} :
       \E installed \in BOOLEAN :
          /\ call' = [NoCall EXCEPT !.op = "pdfinfo_from_bytes", !.pdf_file = fs[src],
                                    !.installed = installed]
          /\ result' = Done(PdfinfoFromBytes(fs[src], installed))
    /\ loc' = NoLoc
    /\ pc' = "done"
    /\ UNCHANGED <<fs, memRet, folder0>>

\* The caller takes the result of the completed call and goes on.
CallerContinues ==
    /\ pc = "done"
    /\ pc' = "idle"
    /\ call' = NoCall
    /\ loc' = NoLoc
    /\ result' = NoResult
    /\ UNCHANGED <<fs, memRet, folder0>>

\* ------------------------------------------------------------ specification
Next ==
    \/ CallConvertFromPath
    \/ OpenDocument
    \/ OpenFails
    \/ RenderPage
    \/ JoinFails
    \/ RenderFails
    \/ Collect
    \/ CallConvertFromBytes
    \/ Mkstemp
    \/ MkstempFails
    \/ WriteBuffer
    \/ WriteFails
    \/ Finally
    \/ CallLoadFromOutputFolder
    \/ CallPdfinfoFromPath
    \/ CallPdfinfoFromBytes
    \/ CallerContinues

Spec == Init /\ [][Next]_vars

\* ================================================================== claims
\* The last component of a path: what follows its last "/".
Basename(p) == LET parts == Split(p, SEP) IN parts[Len(parts)]

\* The call that has just completed.
Completed(o) == pc = "done" /\ call.op = o

\* C1. For every valid document of N pages, convert_from_path with
\* output_folder = None and paths_only = False completes without raising
\* and returns a list of exactly N images, the i-th the rendering of page i,
\* read back from an auto-created temporary directory.
C1_MemoryCallReturnsPageImages ==
    ( /\ Completed("convert_from_path")
      /\ call.pdf_path = DOC /\ call.output_folder.none /\ ~call.paths_only
      /\ result.ret.outcome # "FileExistsError" )
    => /\ result.ret.outcome = "return"
       /\ ~result.ret.isNone
       /\ Len(result.ret.list) = loc.pdf_document
       /\ \A i \in 1..Len(result.ret.list) :
             /\ result.ret.list[i].image
             /\ Basename(result.ret.list[i].path) = PageFileName(i - 1)

\* C3. For every valid document of N pages, convert_from_path with a
\* caller-supplied (existing, empty) output folder and paths_only = True
\* returns a list of exactly N paths, each of a file that exists on return.
C3_PathsOnlyReturnsExistingPaths ==
    ( /\ Completed("convert_from_path")
      /\ call.pdf_path = DOC /\ ~call.output_folder.none /\ call.paths_only
      /\ folder0 = [exists |-> TRUE, names |-> {}] )
    => /\ result.ret.outcome = "return"
       /\ ~result.ret.isNone
       /\ Len(result.ret.list) = loc.pdf_document
       /\ \A i \in 1..Len(result.ret.list) :
             /\ ~result.ret.list[i].image
             /\ result.ret.list[i].path \in DOMAIN fs

\* C4. For a document of 10 or more pages, the page file names the render
\* loop produces sort, under the sort of the Output Collector, into numeric
\* page order: the file of page i comes i-th.
C4_PageNamesSortNumerically ==
    ( /\ pc = "cfp_loop"
      /\ loc.pdf_document >= 10
      /\ loc.page_num = loc.pdf_document
      /\ ~loc.output_path.none )
    => LET produced == { PageFileName(n) : n \in 0..(loc.page_num - 1) }
           collected == Sorted(produced)
       IN  /\ Basename(loc.output_path.s) \in produced
           /\ \A i \in 1..Len(collected) : collected[i] = PageFileName(i - 1)

\* C6. Whenever the page count of the document cannot be resolved (the
\* parsing step fails with a ValueError), pdfinfo_from_path and
\* pdfinfo_from_bytes end by raising PDFPageCountError.
C6_UnresolvedCountRaisesPageCountError ==
    ( /\ pc = "done"
      /\ call.installed
      /\ \/ /\ call.op = "pdfinfo_from_path"
            /\ call.pdf_path \in DOMAIN fs
            /\ fs[call.pdf_path].kind = "pdf" /\ ~fs[call.pdf_path].sound
         \/ /\ call.op = "pdfinfo_from_bytes"
            /\ call.pdf_file.kind = "pdf" /\ ~call.pdf_file.sound )
    => result.ret.outcome = "PDFPageCountError"

\* C7. Round trip: rendering the valid document into an explicit, initially
\* empty output folder and reading that folder back with the Output
\* Collector yields a list of the same length, in the same page order, as
\* the list convert_from_path returns with no output folder.
C7_RoundTripMatchesMemoryCall ==
    ( /\ Completed("convert_from_path")
      /\ IsDiskCall
      /\ result.ret.outcome = "return"
      /\ folder0 = [exists |-> TRUE, names |-> {}]
      /\ memRet.set
      /\ memRet.ret.outcome # "FileExistsError" )
    => LET back == LoadFromOutputFolder(fs, call.output_folder.s, S_png, FALSE, FALSE)
       IN  /\ memRet.ret.outcome = "return"
           /\ ~memRet.ret.isNone
           /\ back.outcome = "return"
           /\ Len(back.list) = Len(memRet.ret.list)
           /\ \A i \in 1..Len(back.list) :
                 Basename(back.list[i].path) = Basename(memRet.ret.list[i].path)

\* C8. pdfinfo_from_path raises PDFInfoNotInstalledError only when the
\* metadata-parsing capability cannot run; a missing source file is not
\* reported as tool-unavailable but as the open failure it is.
C8_ToolUnavailableOnlyWhenNotInstalled ==
    Completed("pdfinfo_from_path")
    => /\ result.ret.outcome = "PDFInfoNotInstalledError" => ~call.installed
       /\ (call.installed /\ call.pdf_path \notin DOMAIN fs)
             => result.ret.outcome = "FileNotFoundError"

\* C9. With a caller-supplied (existing, empty) output folder, after k
\* iterations of the render loop exactly the files page_1 .. page_k have
\* been written, and on completion the folder holds page_1 .. page_N.
C9_FolderHoldsOneFilePerRenderedPage ==
    ( /\ call.op = "convert_from_path"
      /\ ~call.output_folder.none
      /\ folder0 = [exists |-> TRUE, names |-> {}]
      /\ \/ pc = "cfp_loop"
         \/ pc = "done" /\ result.ret.outcome = "return" )
    => ListDir(fs, call.output_folder.s)
          = { PageFileName(n) : n \in 0..(loc.page_num - 1) }

\* C2. Once convert_from_bytes has finished, the temporary file it created
\* with mkstemp no longer exists, however the call ended: a normal return,
\* a failure while writing the buffer, or an exception of convert_from_path
\* (at open, at any page of the render loop, at the read-back).
C2_TempFileRemovedOnEveryExit ==
    ( /\ Completed("convert_from_bytes")
      /\ ~loc.temp_filename.none )
    => loc.temp_filename.s \notin DOMAIN fs

\* C2's case: the render loop of a convert_from_bytes call raised after at
\* least one page, and the temporary file is gone.
C2_Witness ==
    /\ Completed("convert_from_bytes")
    /\ ~loc.temp_filename.none
    /\ loc.page_num >= 1
    /\ result.ret.outcome = "fitz.RenderError"
    /\ loc.temp_filename.s \notin DOMAIN fs

\* C5. convert_from_path (or convert_from_bytes, through it) on a path that
\* does not exist or does not open as a document ends in the "cannot open
\* document" error of the open call: never a normal return, never another
\* kind of error such as the TypeError of the path handling.
C5_BadSourceEndsInOpenError ==
    ( /\ pc = "done"
      /\ \/ /\ call.op = "convert_from_path"
            /\ ~(call.pdf_path \in DOMAIN fs /\ fs[call.pdf_path].kind = "pdf")
         \/ /\ call.op = "convert_from_bytes"
            /\ loc.pdf_path # <<>>
            /\ call.pdf_file.kind # "pdf" )
    => result.ret.outcome \in OpenErrors

\* C5's case: a nonexistent path with no output folder (the arguments under
\* which the path handling of line 124 would raise TypeError).
C5_Witness ==
    /\ Completed("convert_from_path")
    /\ call.pdf_path \notin DOMAIN fs
    /\ call.output_folder.none
    /\ result.ret.outcome = "fitz.FileNotFoundError"

\* f's last dot-separated component is ext: what follows f's last "." (all
\* of f when it has none) equals ext.
HasExt(f, ext) ==
    \E k \in 0..Len(f) :
        /\ k = 0 \/ f[k] = DOT[1]
        /\ \A i \in (k + 1)..Len(f) : f[i] # DOT[1]
        /\ SubSeq(f, k + 1, Len(f)) = ext

\* C10. _load_from_output_folder returns exactly one entry per directory
\* entry whose last dot-separated component equals ext and none for any
\* other file, in ascending file name order; in paths-only mode an entry is
\* the folder joined with the name, otherwise the opened image, decoded
\* into memory exactly when in_memory is true. It returns whenever the
\* folder exists and, unless paths-only, every matching entry is an image.
C10_CollectorContract ==
    Completed("_load_from_output_folder")
    => LET folder == call.output_folder.s
           l == result.ret.list
           wanted == { f \in ListDir(fs, folder) : HasExt(f, call.ext) }
       IN  /\ (result.ret.outcome = "return")
                 <=> /\ IsDir(fs, folder)
                     /\ \/ call.paths_only
                        \/ \A f \in wanted : fs[PathJoin(folder, f)].kind = "image"
           /\ result.ret.outcome = "return" =>
                 /\ ~result.ret.isNone
                 /\ Len(l) = Cardinality(wanted)
                 /\ \A i \in 1..Len(l) :
                       /\ \E f \in wanted : l[i].path = PathJoin(folder, f)
                       /\ l[i].image = ~call.paths_only
                       /\ l[i].loaded = (~call.paths_only /\ call.in_memory)
                 /\ \A i, j \in 1..Len(l) :
                       i < j => StrLess(Basename(l[i].path), Basename(l[j].path))

\* C10's case: a folder with two matching entries and one that does not
\* match, read back as images decoded into memory.
C10_Witness ==
    /\ Completed("_load_from_output_folder")
    /\ result.ret.outcome = "return"
    /\ ~call.paths_only /\ call.in_memory
    /\ Len(result.ret.list) = 2
    /\ Cardinality(ListDir(fs, call.output_folder.s)) = 3

====
